---- MODULE Spec2Model ----
(***************************************************************************)
(* Frame orchestration of the Bismuth engine: FirstApp's constructor, run  *)
(* loop, drawFrame, recreateSwapChain and command-buffer recording, with   *)
(* the Window's resize callback and the swap chain's result codes.         *)
(* The main thread is the only thread; window callbacks run only inside    *)
(* glfwPollEvents and glfwWaitEvents.                                      *)
(***************************************************************************)
EXTENDS Integers, Sequences, FiniteSets, TLC

\* ------------------------------------------------------------------ bounds
MaxFrames == 2      \* frames recorded (constructor's included); one more call when one recorded nothing
MaxDim == 1         \* window widths range over 0..MaxDim
MaxImages == 2      \* the driver reports between 1 and MaxImages images
MaxObjects == 2     \* scene objects in the collection

\* ------------------------------------------------------- program constants
TwoPiCenti == 628   \* glm::two_pi<float>() in hundredths of a radian
RotStepCenti == 1   \* the 0.01f added to the rotation
ClearColorCenti == 1    \* {0.01f, 0.01f, 0.01f, 0.01f}
ClearDepthCenti == 10   \* depthStencil = {0.1f, 0}
ClearStencil == 0

Null == [null |-> TRUE]

\* Sizes a resize event may report.  The width takes every value up to MaxDim;
\* the height is either zero (a minimised window) or full.
Widths == 0..MaxDim
Heights == {0, MaxDim}

\* The size the window is constructed with (WIDTH by HEIGHT, wider than
\* high), which no resize event of the sets above reports again.
InitialWidth == MaxDim + 1
InitialHeight == MaxDim

\* Result codes of SwapChain::acquireNextImage and submitCommandBuffers.
\* "Error" stands for every code other than the three named ones.
VkResults == {"Success", "Suboptimal", "OutOfDate", "Error"}

\* SwapChain::imageCount() of a newly built chain.
ImageCounts == 1..MaxImages

VARIABLES
  pc,                  \* position of the main thread
  ret,                 \* caller of recreateSwapChain: "ctor" or "frame"
  width, height,       \* Window::width, Window::height
  framebufferResized,  \* Window::framebufferResized
  closeRequested,      \* glfwWindowShouldClose(window)
  extent,              \* local `extent` of recreateSwapChain
  swapChain,           \* FirstApp::swapChain: Null or [gen, extent, imageCount]
  released,            \* generations of the chains whose resources were released
  pipeline,            \* FirstApp::pipeline: Null or [renderPass]
  commandBuffers,      \* FirstApp::commandBuffers: one command sequence each
  gameObjects,         \* FirstApp::gameObjects
  imageIndex,          \* local `imageIndex` of drawFrame
  objIdx,              \* position of the range-for in renderGameObjects
  idleWaited,          \* vkDeviceWaitIdle returned: in the running recreation,
                       \* or at the end of run
  frameNo,             \* drawFrame calls so far
  frame,               \* what the current (or last) drawFrame call did
  nRecorded,           \* frames whose recording began
  nDraws,              \* draws issued over the run
  destroyed,           \* what FirstApp's destruction has destroyed, in order
  pip,                 \* a Pipeline object: its construction, binds, destruction
  sync,                \* the swap chain's frames in flight and their fences
  ids                  \* the counter of GameObject::createGameObject

\* The variables of the three units that are followed on their own.
unitVars == <<pip, sync, ids>>

\* The variables of the frame loop.
frameVars == <<pc, ret, width, height, framebufferResized, closeRequested,
               extent, swapChain, released, pipeline, commandBuffers,
               gameObjects, imageIndex, objIdx, idleWaited, frameNo, frame,
               nRecorded, nDraws, destroyed>>

vars == <<frameVars, unitVars>>

\* ------------------------------------------------------------------ window
\* Window::getExtent
getExtent == [width |-> width, height |-> height]

\* Value of the locals `extent` and `imageIndex` while they are out of scope.
NoExtent == [width |-> 0, height |-> 0]

\* Variant: the loop waits only while both dimensions are zero.
IsZeroExtent_Both(e) == e.width = 0 /\ e.height = 0

\* The loop test of recreateSwapChain.
IsZeroExtent(e) == e.width = 0 \/ e.height = 0

\* What one call of glfwPollEvents / glfwWaitEvents delivers: the callbacks of
\* the pending events run in order, and the net effect of any batch is that of
\* its last resize (if any) and of a close request (if any).
EventBatches ==
  [resized : {FALSE}, w : {0}, h : {0}, close : BOOLEAN]
    \cup [resized : {TRUE}, w : Widths, h : Heights, close : BOOLEAN]

\* Window::frameBufferResizeCallback sets the flag and stores both dimensions;
\* a close request makes glfwWindowShouldClose true.
ProcessEvents(ev) ==
  /\ IF ev.resized
       THEN /\ framebufferResized' = TRUE
            /\ width' = ev.w
            /\ height' = ev.h
       ELSE UNCHANGED <<framebufferResized, width, height>>
  /\ closeRequested' = (closeRequested \/ ev.close)

\* ------------------------------------------------------------------- scene
\* GameObject::createGameObject hands out 0, 1, 2, ...; loadGameObjects gives
\* the object a mesh, the color {0.1, 0.8, 0.1}, the translation (0.2, 0),
\* the scale (2, 0.5) and the rotation 0.25 * two_pi (all in hundredths).
NewGameObject(i) ==
  [id |-> i, model |-> i, color |-> <<10, 80, 10>>, translation |-> <<20, 0>>,
   scale |-> <<200, 50>>, rotation |-> TwoPiCenti \div 4]

\* The record of one drawFrame call: the chain it started with, the result of
\* its acquisition, whether it recorded and submitted, the result of its
\* presentation and the resize flag read with it, whether a recreateSwapChain
\* it called returned, and whether a resize callback ran inside that call.
\* `acqs` and `submits` count the calls of acquireNextImage and of
\* submitCommandBuffers since the run loop last polled for events.
NoFrame == [gen0 |-> 0, acq |-> "none", recorded |-> FALSE, submitted |-> FALSE,
            pres |-> "none", resizedAtPresent |-> FALSE, recreated |-> FALSE,
            resizedInRecreate |-> FALSE, acqs |-> 0, submits |-> 0]

\* The three units while the frame loop is followed: nothing of them exists.
NoError == [kind |-> "none", message |-> <<>>]

PipelineOff ==
  [pc |-> "off", layoutNull |-> FALSE, renderPassNull |-> FALSE,
   ndebug |-> FALSE, vertOpens |-> TRUE, fragOpens |-> TRUE, reads |-> <<>>,
   vertShaderModule |-> "null", fragShaderModule |-> "null",
   graphicsPipeline |-> "null", error |-> NoError, gpuCalls |-> 0,
   buffers |-> <<>>]

SyncOff == [pc |-> "off", fences |-> <<>>, work |-> <<>>, currentFrame |-> 0,
            submits |-> 0]

IdsOff == [currentId |-> 0, objects |-> <<>>]

\* The state when FirstApp's constructor has run loadGameObjects and
\* createPipelineLayout.  The window has its constructed size (WIDTH x HEIGHT,
\* the full size here); Window's constructor leaves framebufferResized
\* uninitialised, so its first read may give either value.  No event has been
\* delivered yet.  The collection holds the objects created so far, each from
\* createGameObject (FirstApp loads one; renderGameObjects takes any number).
Init ==
  /\ pc = "ctor_recreate"
  /\ ret = "ctor"
  /\ width = InitialWidth
  /\ height = InitialHeight
  /\ framebufferResized \in BOOLEAN
  /\ closeRequested = FALSE
  /\ extent = NoExtent
  /\ swapChain = Null
  /\ released = {}
  /\ pipeline = Null
  /\ commandBuffers = <<>>
  /\ gameObjects = [i \in 1..MaxObjects |-> NewGameObject(i - 1)]
  /\ imageIndex = 0
  /\ objIdx = 0
  /\ idleWaited = FALSE
  /\ frameNo = 0
  /\ frame = NoFrame
  /\ nRecorded = 0
  /\ nDraws = 0
  /\ destroyed = <<>>
  /\ pip = PipelineOff
  /\ sync = SyncOff
  /\ ids = IdsOff

\* The frame loop while one of the units is followed: FirstApp not yet built.
FrameOff ==
  /\ pc = "off"
  /\ ret = "ctor"
  /\ width = MaxDim
  /\ height = MaxDim
  /\ framebufferResized = FALSE
  /\ closeRequested = FALSE
  /\ extent = NoExtent
  /\ swapChain = Null
  /\ released = {}
  /\ pipeline = Null
  /\ commandBuffers = <<>>
  /\ gameObjects = <<>>
  /\ imageIndex = 0
  /\ objIdx = 0
  /\ idleWaited = FALSE
  /\ frameNo = 0
  /\ frame = NoFrame
  /\ nRecorded = 0
  /\ nDraws = 0
  /\ destroyed = <<>>


\* --------------------------------------------------------- command buffers
Cmd(op, args) == [op |-> op, args |-> args]

\* commandBuffers[imageIndex] with `cmd` appended
Record(bufs, idx, cmd) == [bufs EXCEPT ![idx + 1] = Append(@, cmd)]

\* vkBeginCommandBuffer puts the buffer back to empty and starts recording.
BeginCommandBuffer(bufs, idx) == [bufs EXCEPT ![idx + 1] = <<Cmd("Begin", <<>>)>>]

\* FirstApp::freeCommandBuffers: every buffer freed, the vector cleared.
freeCommandBuffers == <<>>

\* commandBuffers.resize(n): the first n handles kept, empty ones added.
Resize(bufs, n) == [i \in 1..n |-> IF i <= Len(bufs) THEN bufs[i] ELSE <<>>]

\* FirstApp::createCommandBuffers: resize to the image count, then
\* vkAllocateCommandBuffers writes a fresh buffer over every handle.
createCommandBuffers(bufs, n) == [i \in DOMAIN Resize(bufs, n) |-> <<>>]

\* Variant: the command buffers are kept whatever the new image count.
CommandBuffersAfterRecreate_Keep(bufs, n) == bufs

\* The mismatch test of recreateSwapChain.
CommandBuffersAfterRecreate(bufs, n) ==
  IF n # Len(bufs) THEN createCommandBuffers(freeCommandBuffers, n) ELSE bufs

\* The calls obj.model->bind(commandBuffer) and obj.model->draw(commandBuffer)
\* of renderGameObjects, entered in the buffer as one command each.
ModelBind(m) == Cmd("BindModel", <<m>>)
ModelDraw(m) == Cmd("Draw", <<m>>)

\* Transform2dComponent::mat2: the matrix of the rotation and the scale, kept
\* as that pair (equal angles below two_pi and equal scales, equal matrices).
Mat2(obj) == <<obj.rotation, obj.scale>>

\* struct SimplePushConstantData: its members in declaration order, each with
\* its size and its alignment in bytes (mat2 and vec2 of 4-byte floats, the
\* vec3 declared alignas(16)).
SimplePushConstantData ==
  << [name |-> "transform", size |-> 16, align |-> 4],
     [name |-> "offset", size |-> 8, align |-> 4],
     [name |-> "color", size |-> 12, align |-> 16] >>

\* The least multiple of a that is no less than n.
AlignUp(n, a) == ((n + a - 1) \div a) * a

\* The byte after member k of a struct: the member starts at the first
\* multiple of its alignment after the member before it.
RECURSIVE EndOf(_, _)
EndOf(fields, k) ==
  IF k = 0 THEN 0
  ELSE AlignUp(EndOf(fields, k - 1), fields[k].align) + fields[k].size

\* The alignment of a struct is the largest of its members'.
RECURSIVE AlignOf(_, _)
AlignOf(fields, k) ==
  IF k = 0 THEN 1
  ELSE LET a == AlignOf(fields, k - 1) IN
       IF fields[k].align > a THEN fields[k].align ELSE a

\* sizeof: the end of the last member, padded to the struct's alignment.
SizeOf(fields) == AlignUp(EndOf(fields, Len(fields)), AlignOf(fields, Len(fields)))

\* Variant: the range of the layout names the vertex stage only.
PushConstantRange_VertexOnly ==
  [stageFlags |-> {"VERTEX"}, offset |-> 0,
   size |-> SizeOf(SimplePushConstantData)]

\* createPipelineLayout: the one push-constant range of the layout.
PushConstantRange ==
  [stageFlags |-> {"VERTEX", "FRAGMENT"}, offset |-> 0,
   size |-> SizeOf(SimplePushConstantData)]

\* The layout made by createPipelineLayout in the constructor, before the
\* first chain; it is not changed until the destructor.
pipelineLayout == [setLayouts |-> <<>>, pushConstantRanges |-> <<PushConstantRange>>]

\* The stage flags, offset and size arguments of vkCmdPushConstants in
\* renderGameObjects.
PushArguments ==
  [stageFlags |-> {"FRAGMENT", "VERTEX"}, offset |-> 0,
   size |-> SizeOf(SimplePushConstantData)]

\* The SimplePushConstantData built for one object and pushed: transform,
\* offset, color, then the stage flags, offset and size of the call.  The
\* object's id goes along to tell the records apart.
PushConstants(obj) ==
  Cmd("PushConstants",
      <<obj.id, Mat2(obj), obj.translation, obj.color, PushArguments>>)

\* glm::mod(rotation + 0.01f, two_pi)
Rotate(obj) == [obj EXCEPT !.rotation = (@ + RotStepCenti) % TwoPiCenti]

\* ------------------------------------------------------ recreateSwapChain
\* Entry of recreateSwapChain: `auto extent = window.getExtent();`
EnterRecreate(caller) ==
  /\ ret' = caller
  /\ extent' = getExtent
  /\ idleWaited' = FALSE
  /\ pc' = "rc_loop"

\* Body of the while loop: re-read the extent, then glfwWaitEvents().
RcWaitEvents ==
  /\ pc = "rc_loop"
  /\ IsZeroExtent(extent)
  /\ extent' = getExtent
  /\ \E ev \in EventBatches :
       /\ ProcessEvents(ev)
       /\ frame' = IF ev.resized /\ ret = "frame"
                     THEN [frame EXCEPT !.resizedInRecreate = TRUE]
                     ELSE frame
  /\ UNCHANGED <<pc, ret, swapChain, released, pipeline, commandBuffers,
                 gameObjects, imageIndex, objIdx, idleWaited, frameNo,
                 nRecorded, nDraws, destroyed, unitVars>>

\* Variant: the loop exit goes on to build the chain without the idle wait.
RcDeviceWaitIdle_Skipped ==
  /\ pc = "rc_loop"
  /\ ~IsZeroExtent(extent)
  /\ pc' = "rc_build"
  /\ UNCHANGED <<ret, width, height, framebufferResized, closeRequested,
                 extent, swapChain, released, pipeline, commandBuffers,
                 gameObjects, imageIndex, objIdx, idleWaited, frameNo, frame,
                 nRecorded, nDraws, destroyed, unitVars>>

\* Loop exit and vkDeviceWaitIdle(device.device()).
RcDeviceWaitIdle ==
  /\ pc = "rc_loop"
  /\ ~IsZeroExtent(extent)
  /\ idleWaited' = TRUE
  /\ pc' = "rc_build"
  /\ UNCHANGED <<ret, width, height, framebufferResized, closeRequested,
                 extent, swapChain, released, pipeline, commandBuffers,
                 gameObjects, imageIndex, objIdx, frameNo, frame, nRecorded,
                 nDraws, destroyed, unitVars>>

\* A chain built by the SwapChain constructor from an extent.
NewSwapChain(gen, e, n) == [gen |-> gen, extent |-> e, imageCount |-> n]

NextGen == IF swapChain = Null THEN 1 ELSE swapChain.gen + 1

\* The if/else of recreateSwapChain: first chain, or a chain built from the
\* previous one (which is released when the new one replaces it) followed by
\* the command-buffer count test.  vkAllocateCommandBuffers may fail.
RcBuildSwapChain ==
  /\ pc = "rc_build"
  /\ \E n \in ImageCounts, allocOk \in BOOLEAN :
       /\ swapChain' = NewSwapChain(NextGen, extent, n)
       /\ IF swapChain = Null
            THEN /\ allocOk
                 /\ pc' = "rc_pipeline"
                 /\ UNCHANGED <<released, commandBuffers>>
            ELSE /\ released' = released \cup {swapChain.gen}
                 /\ commandBuffers' = CommandBuffersAfterRecreate(commandBuffers, n)
                 /\ IF allocOk
                      THEN pc' = "rc_pipeline"
                      ELSE /\ n # Len(commandBuffers)
                           /\ pc' = "fatal"
  /\ UNCHANGED <<ret, width, height, framebufferResized, closeRequested,
                 extent, pipeline, gameObjects, imageIndex, objIdx,
                 idleWaited, frameNo, frame, nRecorded, nDraws, destroyed,
                 unitVars>>

\* Variant: a frame whose recreation has returned goes back to acquire.
ReturnFromRecreate_Retry(caller) ==
  IF caller = "ctor" THEN "ctor_cmdbufs" ELSE "df_acquire"

\* Variant: the constructor calls drawFrame straight after recreateSwapChain.
ReturnFromRecreate_NoBuffers(caller) ==
  IF caller = "ctor" THEN "df_acquire" ELSE "run_loop"

\* Where recreateSwapChain returns to: the constructor goes on to
\* createCommandBuffers; drawFrame returns to its caller (`return;` after the
\* call, or the end of the function), which is followed by run's loop.
ReturnFromRecreate(caller) ==
  IF caller = "ctor" THEN "ctor_cmdbufs" ELSE "run_loop"

\* Variant: the member is emptied before the new pipeline is constructed.
AssignPipeline_ResetFirst(old, new, ok) == IF ok THEN new ELSE Null

\* pipeline = std::make_unique<Pipeline>(...): the new pipeline is constructed
\* first, and the move assignment then releases the one the member held; when
\* the constructor throws, the member keeps what it held.
AssignPipeline(old, new, ok) == IF ok THEN new ELSE old

\* FirstApp::createPipeline, then the return of recreateSwapChain.
\* The Pipeline constructor may throw.
RcCreatePipeline ==
  /\ pc = "rc_pipeline"
  /\ \E ok \in BOOLEAN :
       /\ pipeline' = AssignPipeline(pipeline, [renderPass |-> swapChain.gen], ok)
       /\ IF ok
         THEN /\ pc' = ReturnFromRecreate(ret)
              /\ frame' = IF ret = "frame"
                            THEN [frame EXCEPT !.recreated = TRUE]
                            ELSE frame
              /\ extent' = NoExtent
              /\ imageIndex' = 0
              /\ idleWaited' = FALSE
         ELSE /\ pc' = "fatal"
              /\ UNCHANGED <<frame, extent, imageIndex, idleWaited>>
  /\ UNCHANGED <<ret, width, height, framebufferResized, closeRequested,
                 swapChain, released, commandBuffers, gameObjects, objIdx,
                 frameNo, nRecorded, nDraws, destroyed, unitVars>>

\* ------------------------------------------------------------ constructor
\* FirstApp::FirstApp after loadGameObjects and createPipelineLayout:
\* recreateSwapChain()
CtorRecreate ==
  /\ pc = "ctor_recreate"
  /\ EnterRecreate("ctor")
  /\ UNCHANGED <<width, height, framebufferResized, closeRequested, swapChain,
                 released, pipeline, commandBuffers, gameObjects, imageIndex,
                 objIdx, frameNo, frame, nRecorded, nDraws, destroyed,
                 unitVars>>

\* createCommandBuffers() of the constructor, then on to drawFrame().
CtorCreateCommandBuffers ==
  /\ pc = "ctor_cmdbufs"
  /\ \E allocOk \in BOOLEAN :
       /\ commandBuffers' = createCommandBuffers(commandBuffers, swapChain.imageCount)
       /\ pc' = IF allocOk THEN "df_acquire" ELSE "fatal"
  /\ UNCHANGED <<ret, width, height, framebufferResized, closeRequested,
                 extent, swapChain, released, pipeline, gameObjects,
                 imageIndex, objIdx, idleWaited, frameNo, frame, nRecorded,
                 nDraws, destroyed, unitVars>>


\* --------------------------------------------------------------- drawFrame
\* Variant: OutOfDate is let through to recording.
AcquireBranch_NoAbort(result) ==
  IF result # "Success" /\ result # "Suboptimal" /\ result # "OutOfDate" THEN "fatal"
  ELSE "record"

\* Variant: the test for other codes is missing.
AcquireBranch_NoErrorCheck(result) ==
  IF result = "OutOfDate" THEN "recreate" ELSE "record"

\* The tests drawFrame makes on the result of acquireNextImage.
AcquireBranch(result) ==
  IF result = "OutOfDate" THEN "recreate"
  ELSE IF result # "Success" /\ result # "Suboptimal" THEN "fatal"
  ELSE "record"

\* Variant: the resize flag is not consulted.
PresentBranch_IgnoresFlag(result, resized) ==
  IF result = "OutOfDate" \/ result = "Suboptimal" THEN "recreate"
  ELSE IF result # "Success" THEN "fatal"
  ELSE "return"

\* Variant: Suboptimal is treated like Success.
PresentBranch_IgnoresSuboptimal(result, resized) ==
  IF result = "OutOfDate" \/ resized THEN "recreate"
  ELSE IF result # "Success" /\ result # "Suboptimal" THEN "fatal"
  ELSE "return"

\* The tests drawFrame makes after submitCommandBuffers, in the code's order.
PresentBranch(result, resized) ==
  IF result = "OutOfDate" \/ result = "Suboptimal" \/ resized THEN "recreate"
  ELSE IF result # "Success" THEN "fatal"
  ELSE "return"

\* swapChain->acquireNextImage(&imageIndex) and the two tests on its result.
DfAcquire ==
  /\ pc = "df_acquire"
  /\ frameNo' = frameNo + 1
  /\ \E result \in VkResults :
       /\ frame' = [frame EXCEPT !.acq = result, !.gen0 = swapChain.gen,
                                 !.acqs = @ + 1]
       /\ CASE AcquireBranch(result) = "recreate" ->
                 /\ EnterRecreate("frame")
                 /\ UNCHANGED imageIndex
            [] AcquireBranch(result) = "fatal" ->
                 /\ pc' = "fatal"
                 /\ UNCHANGED <<ret, extent, idleWaited, imageIndex>>
            [] AcquireBranch(result) = "record" ->
                 /\ pc' = "rec_begin"
                 /\ imageIndex' \in 0..(swapChain.imageCount - 1)
                 /\ UNCHANGED <<ret, extent, idleWaited>>
  /\ UNCHANGED <<width, height, framebufferResized, closeRequested, swapChain,
                 released, pipeline, commandBuffers, gameObjects, objIdx,
                 nRecorded, nDraws, destroyed, unitVars>>

\* recordCommandBuffer: vkBeginCommandBuffer, which may fail.
RecBegin ==
  /\ pc = "rec_begin"
  /\ \E ok \in BOOLEAN :
       IF ok
         THEN /\ commandBuffers' = BeginCommandBuffer(commandBuffers, imageIndex)
              /\ frame' = [frame EXCEPT !.recorded = TRUE]
              /\ nRecorded' = nRecorded + 1
              /\ pc' = "rec_pass"
         ELSE /\ pc' = "fatal"
              /\ UNCHANGED <<commandBuffers, frame, nRecorded>>
  /\ UNCHANGED <<ret, width, height, framebufferResized, closeRequested,
                 extent, swapChain, released, pipeline, gameObjects,
                 imageIndex, objIdx, idleWaited, frameNo, nDraws, destroyed,
                 unitVars>>

\* The commands recordCommandBuffer records between vkBeginCommandBuffer and
\* renderGameObjects: render pass begin, viewport, scissor.
\* Variant: the viewport and the scissor take the window's size.
PassSetup_WindowSize(chain, idx) ==
  <<Cmd("BeginRenderPass",
        <<chain.gen, idx, chain.extent.width, chain.extent.height,
          ClearColorCenti, ClearDepthCenti, ClearStencil>>),
    Cmd("SetViewport", <<width, height>>),
    Cmd("SetScissor", <<width, height>>)>>

PassSetup(chain, idx) ==
  <<Cmd("BeginRenderPass",
        <<chain.gen, idx, chain.extent.width, chain.extent.height,
          ClearColorCenti, ClearDepthCenti, ClearStencil>>),
    Cmd("SetViewport", <<chain.extent.width, chain.extent.height>>),
    Cmd("SetScissor", <<chain.extent.width, chain.extent.height>>)>>

RecRenderPass ==
  /\ pc = "rec_pass"
  /\ commandBuffers' = [commandBuffers EXCEPT
                          ![imageIndex + 1] = @ \o PassSetup(swapChain, imageIndex)]
  /\ pc' = "rec_bind"
  /\ UNCHANGED <<ret, width, height, framebufferResized, closeRequested,
                 extent, swapChain, released, pipeline, gameObjects,
                 imageIndex, objIdx, idleWaited, frameNo, frame, nRecorded,
                 nDraws, destroyed, unitVars>>

\* renderGameObjects: pipeline->bind(commandBuffer), then the loop starts.
RecBindPipeline ==
  /\ pc = "rec_bind"
  /\ commandBuffers' = Record(commandBuffers, imageIndex,
                              Cmd("BindPipeline", <<pipeline.renderPass>>))
  /\ objIdx' = 1
  /\ pc' = "rec_obj"
  /\ UNCHANGED <<ret, width, height, framebufferResized, closeRequested,
                 extent, swapChain, released, pipeline, gameObjects,
                 imageIndex, idleWaited, frameNo, frame, nRecorded, nDraws,
                 destroyed, unitVars>>

\* Variant: the loop stops one object early.
LoopDone_OffByOne(i, objs) == i >= Len(objs)

\* The range-for of renderGameObjects is over when every object was visited.
LoopDone(i, objs) == i > Len(objs)

\* Variant: the draw is issued before the push and the mesh bind.
ObjectCommands_DrawFirst(obj) ==
  <<ModelDraw(obj.model), PushConstants(obj), ModelBind(obj.model)>>

\* The commands one iteration of the loop records for (the rotated) object.
ObjectCommands(obj) ==
  <<PushConstants(obj), ModelBind(obj.model), ModelDraw(obj.model)>>

\* Variant: the push record is filled from a copy taken before the update.
PushedObject_BeforeUpdate(old, new) == old

\* The object the push record is filled from: `obj` is a reference into the
\* collection and is read after the assignment to its rotation.
PushedObject(old, new) == new

\* One iteration: rotate the object, push its record, bind its mesh, draw.
RecObject ==
  /\ pc = "rec_obj"
  /\ ~LoopDone(objIdx, gameObjects)
  /\ LET obj == Rotate(gameObjects[objIdx]) IN
       /\ gameObjects' = [gameObjects EXCEPT ![objIdx] = obj]
       /\ commandBuffers' =
            [commandBuffers EXCEPT
               ![imageIndex + 1] =
                  @ \o ObjectCommands(PushedObject(gameObjects[objIdx], obj))]
  /\ nDraws' = nDraws + 1
  /\ objIdx' = objIdx + 1
  /\ UNCHANGED <<pc, ret, width, height, framebufferResized, closeRequested,
                 extent, swapChain, released, pipeline, imageIndex,
                 idleWaited, frameNo, frame, nRecorded, destroyed, unitVars>>

\* After the loop: vkCmdEndRenderPass, then vkEndCommandBuffer, which may fail.
RecEnd ==
  /\ pc = "rec_obj"
  /\ LoopDone(objIdx, gameObjects)
  /\ \E ok \in BOOLEAN :
       IF ok
         THEN /\ commandBuffers' =
                   Record(Record(commandBuffers, imageIndex, Cmd("EndRenderPass", <<>>)),
                          imageIndex, Cmd("End", <<>>))
              /\ pc' = "df_submit"
         ELSE /\ commandBuffers' =
                   Record(commandBuffers, imageIndex, Cmd("EndRenderPass", <<>>))
              /\ pc' = "fatal"
  /\ objIdx' = 0
  /\ UNCHANGED <<ret, width, height, framebufferResized, closeRequested,
                 extent, swapChain, released, pipeline, gameObjects,
                 imageIndex, idleWaited, frameNo, frame, nRecorded, nDraws,
                 destroyed, unitVars>>

\* swapChain->submitCommandBuffers(...) and the tests on its result.
DfSubmit ==
  /\ pc = "df_submit"
  /\ \E result \in VkResults :
       /\ frame' = [frame EXCEPT !.submitted = TRUE, !.pres = result,
                                 !.resizedAtPresent = framebufferResized,
                                 !.submits = @ + 1]
       /\ CASE PresentBranch(result, framebufferResized) = "recreate" ->
                 /\ framebufferResized' = FALSE
                 /\ EnterRecreate("frame")
                 /\ UNCHANGED imageIndex
            [] PresentBranch(result, framebufferResized) = "fatal" ->
                 /\ pc' = "fatal"
                 /\ UNCHANGED <<framebufferResized, ret, extent, idleWaited,
                                imageIndex>>
            [] PresentBranch(result, framebufferResized) = "return" ->
                 /\ pc' = "run_loop"
                 /\ imageIndex' = 0
                 /\ UNCHANGED <<framebufferResized, ret, extent, idleWaited>>
  /\ UNCHANGED <<width, height, closeRequested, swapChain, released, pipeline,
                 commandBuffers, gameObjects, objIdx, frameNo, nRecorded,
                 nDraws, destroyed, unitVars>>

\* --------------------------------------------------------------------- run
\* One turn of the while loop up to the call of drawFrame: glfwPollEvents().
RunPollEvents ==
  /\ pc = "run_loop"
  /\ ~closeRequested
  /\ frameNo <= MaxFrames
  /\ nRecorded < MaxFrames
  /\ \E ev \in EventBatches : ProcessEvents(ev)
  /\ frame' = NoFrame
  /\ pc' = "df_acquire"
  /\ UNCHANGED <<ret, extent, swapChain, released, pipeline, commandBuffers,
                 gameObjects, imageIndex, objIdx, idleWaited, frameNo,
                 nRecorded, nDraws, destroyed, unitVars>>

\* The loop ends: vkDeviceWaitIdle(device.device()) and run returns.
RunExit ==
  /\ pc = "run_loop"
  /\ closeRequested
  /\ idleWaited' = TRUE
  /\ pc' = "done"
  /\ UNCHANGED <<ret, width, height, framebufferResized, closeRequested,
                 extent, swapChain, released, pipeline, commandBuffers,
                 gameObjects, imageIndex, objIdx, frameNo, frame, nRecorded,
                 nDraws, destroyed, unitVars>>

\* ------------------------------------------------------------- destruction
RECURSIVE Reverse(_)
Reverse(q) == IF q = <<>> THEN <<>> ELSE Append(Reverse(Tail(q)), Head(q))

RECURSIVE Flatten(_)
Flatten(qq) == IF qq = <<>> THEN <<>> ELSE Head(qq) \o Flatten(Tail(qq))

\* Variant: the device is declared after the objects made from it.
Members_DeviceLast ==
  <<"window", "swapChain", "pipeline", "pipelineLayout", "commandBuffers",
    "gameObjects", "device">>

\* The data members of FirstApp in their order of declaration.
Members ==
  <<"window", "device", "swapChain", "pipeline", "pipelineLayout",
    "commandBuffers", "gameObjects">>

\* ~Pipeline: the two shader modules, then the pipeline handle.
PipelineDestructor == <<"vertShaderModule", "fragShaderModule", "graphicsPipeline">>

\* What the destruction of one member destroys.  The objects hold the only
\* references to their meshes; the handle members (the layout, the command
\* buffer handles) have trivial destructors; an empty unique_ptr destroys
\* nothing.
MemberDestructor(m) ==
  CASE m = "gameObjects" -> <<"meshes">>
    [] m = "commandBuffers" -> <<>>
    [] m = "pipelineLayout" -> <<>>
    [] m = "pipeline" -> IF pipeline = Null THEN <<>> ELSE PipelineDestructor
    [] m = "swapChain" -> IF swapChain = Null THEN <<>> ELSE <<"swapChain">>
    [] OTHER -> <<m>>

\* The destruction of a FirstApp: the destructor's body destroys the pipeline
\* layout, then the members are destroyed in reverse order of declaration.
DestructionOrder ==
  <<"pipelineLayout">>
    \o Flatten([k \in 1..Len(Members) |-> MemberDestructor(Reverse(Members)[k])])

\* run has returned and the FirstApp object is destroyed.
FirstAppDestructor ==
  /\ pc = "done"
  /\ destroyed' = DestructionOrder
  /\ pc' = "destroyed"
  /\ UNCHANGED <<ret, width, height, framebufferResized, closeRequested,
                 extent, swapChain, released, pipeline, commandBuffers,
                 gameObjects, imageIndex, objIdx, idleWaited, frameNo, frame,
                 nRecorded, nDraws, unitVars>>

Next ==
  \/ CtorRecreate
  \/ RcWaitEvents
  \/ RcDeviceWaitIdle
  \/ RcBuildSwapChain
  \/ RcCreatePipeline
  \/ CtorCreateCommandBuffers
  \/ DfAcquire
  \/ RecBegin
  \/ RecRenderPass
  \/ RecBindPipeline
  \/ RecObject
  \/ RecEnd
  \/ DfSubmit
  \/ RunPollEvents
  \/ RunExit
  \/ FirstAppDestructor

Spec == Init /\ [][Next]_vars

\* The same program under fair scheduling: the one thread takes its next
\* step whenever it has one (glfwPollEvents returns at once, glfwWaitEvents
\* returns with the events that keep arriving, every Vulkan call returns).
LiveSpec == Spec /\ WF_vars(Next)


\* ---------------------------------------------------------------- Pipeline
\* One Pipeline object: its constructor (createGraphicsPipeline), the binds
\* made with it, its destructor.  The caller supplies the configuration (its
\* layout and render pass possibly null) and two paths (each a file that can
\* be opened or not); the build has assertions compiled in or, with NDEBUG,
\* compiled out; the driver accepts or rejects each creation call.
MaxBinds == 2       \* bind calls explored on a constructed pipeline

VertPath == "simple_shader.vert.spv"
FragPath == "simple_shader.frag.spv"

\* The pipeline under construction, at the entry of createGraphicsPipeline,
\* with two command buffers of the caller at hand.
NewPipeline(layoutNull, renderPassNull, ndebug, vertOpens, fragOpens) ==
  [PipelineOff EXCEPT !.pc = "assert_layout",
                      !.layoutNull = layoutNull,
                      !.renderPassNull = renderPassNull,
                      !.ndebug = ndebug,
                      !.vertOpens = vertOpens,
                      !.fragOpens = fragOpens,
                      !.buffers = <<<<>>, <<>>>>]

\* Variant: each file is read just before its module is created.
ConstructionSteps_LazyRead ==
  <<"assert_layout", "assert_pass", "read_vert", "module_vert", "read_frag",
    "module_frag", "create_pipeline">>

\* The statements of createGraphicsPipeline that can end the construction,
\* in the order of the code.
ConstructionSteps ==
  <<"assert_layout", "assert_pass", "read_vert", "read_frag", "module_vert",
    "module_frag", "create_pipeline">>

StepAfter(step) ==
  LET k == CHOOSE j \in 1..Len(ConstructionSteps) : ConstructionSteps[j] = step
  IN IF k = Len(ConstructionSteps) THEN "constructed" ELSE ConstructionSteps[k + 1]

\* assert(cond): with assertions compiled in, a false condition aborts the
\* program; with NDEBUG the statement is empty.
AssertStep(p, cond) ==
  IF ~cond /\ ~p.ndebug THEN [p EXCEPT !.pc = "aborted"]
  ELSE [p EXCEPT !.pc = StepAfter(p.pc)]

\* The runtime_error of readFile: its message is built around the path.
OpenError(path) ==
  [kind |-> "open", message |-> <<"Failed to open file \"", path, "\"!">>]

\* readFile(path): the file is opened; if that fails the function throws,
\* else the bytes are read and returned.
ReadFileStep(p, path, opens) ==
  IF opens THEN [p EXCEPT !.reads = Append(@, path), !.pc = StepAfter(p.pc)]
  ELSE [p EXCEPT !.reads = Append(@, path), !.error = OpenError(path),
                 !.pc = "failed"]

\* createShaderModule: vkCreateShaderModule fills the handle or the function
\* throws.
ModuleStep(p, field, ok) ==
  IF ok THEN [p EXCEPT ![field] = "created", !.gpuCalls = @ + 1,
                       !.pc = StepAfter(p.pc)]
  ELSE [p EXCEPT !.gpuCalls = @ + 1,
                 !.error = [kind |-> "module",
                            message |-> <<"Failed to create shader module!">>],
                 !.pc = "failed"]

PipAssertLayout ==
  /\ pip.pc = "assert_layout"
  /\ pip' = AssertStep(pip, ~pip.layoutNull)
  /\ UNCHANGED <<frameVars, sync, ids>>

PipAssertRenderPass ==
  /\ pip.pc = "assert_pass"
  /\ pip' = AssertStep(pip, ~pip.renderPassNull)
  /\ UNCHANGED <<frameVars, sync, ids>>

PipReadVert ==
  /\ pip.pc = "read_vert"
  /\ pip' = ReadFileStep(pip, VertPath, pip.vertOpens)
  /\ UNCHANGED <<frameVars, sync, ids>>

PipReadFrag ==
  /\ pip.pc = "read_frag"
  /\ pip' = ReadFileStep(pip, FragPath, pip.fragOpens)
  /\ UNCHANGED <<frameVars, sync, ids>>

PipCreateVertModule ==
  /\ pip.pc = "module_vert"
  /\ \E ok \in BOOLEAN : pip' = ModuleStep(pip, "vertShaderModule", ok)
  /\ UNCHANGED <<frameVars, sync, ids>>

PipCreateFragModule ==
  /\ pip.pc = "module_frag"
  /\ \E ok \in BOOLEAN : pip' = ModuleStep(pip, "fragShaderModule", ok)
  /\ UNCHANGED <<frameVars, sync, ids>>

\* vkCreateGraphicsPipelines fills the handle or the function throws.
PipCreateGraphicsPipeline ==
  /\ pip.pc = "create_pipeline"
  /\ \E ok \in BOOLEAN :
       pip' = IF ok
                THEN [pip EXCEPT !.graphicsPipeline = "created",
                                 !.gpuCalls = @ + 1,
                                 !.pc = StepAfter(pip.pc)]
                ELSE [pip EXCEPT !.gpuCalls = @ + 1,
                                 !.error = [kind |-> "pipeline",
                                            message |-> <<"Failed to create graphics pipeline!">>],
                                 !.pc = "failed"]
  /\ UNCHANGED <<frameVars, sync, ids>>

\* Variant: the bind command is recorded twice.
PipelineBind_Twice(buf) ==
  buf \o <<Cmd("BindPipeline", <<"graphicsPipeline">>),
           Cmd("BindPipeline", <<"graphicsPipeline">>)>>

\* Pipeline::bind: one vkCmdBindPipeline into the buffer it is given.
PipelineBind(buf) == Append(buf, Cmd("BindPipeline", <<"graphicsPipeline">>))

RECURSIVE SumLen(_)
SumLen(qq) == IF qq = <<>> THEN 0 ELSE Len(Head(qq)) + SumLen(Tail(qq))

\* Commands recorded so far into the caller's buffers.
BindsMade(p) == SumLen(p.buffers)

PipBind ==
  /\ pip.pc = "constructed"
  /\ BindsMade(pip) < MaxBinds
  /\ \E b \in 1..Len(pip.buffers) :
       pip' = [pip EXCEPT !.buffers[b] = PipelineBind(@)]
  /\ UNCHANGED <<frameVars, sync, ids>>

\* Pipeline::~Pipeline
PipDestructor ==
  /\ pip.pc = "constructed"
  /\ pip' = [pip EXCEPT !.vertShaderModule = "destroyed",
                        !.fragShaderModule = "destroyed",
                        !.graphicsPipeline = "destroyed",
                        !.pc = "destructed"]
  /\ UNCHANGED <<frameVars, sync, ids>>

InitPipeline ==
  /\ FrameOff
  /\ sync = SyncOff
  /\ ids = IdsOff
  /\ \E layoutNull, renderPassNull, ndebug, vertOpens, fragOpens \in BOOLEAN :
       pip = NewPipeline(layoutNull, renderPassNull, ndebug, vertOpens, fragOpens)

PipelineNext ==
  \/ PipAssertLayout
  \/ PipAssertRenderPass
  \/ PipReadVert
  \/ PipReadFrag
  \/ PipCreateVertModule
  \/ PipCreateFragModule
  \/ PipCreateGraphicsPipeline
  \/ PipBind
  \/ PipDestructor

PipelineSpec == InitPipeline /\ [][PipelineNext]_vars


\* ------------------------------------------- frames in flight (SwapChain)
\* The swap chain keeps one in-flight fence per frame in flight, as many as
\* it has images, and a current frame that cycles modulo that count.  The
\* unit follows drawFrame's calls into the chain next to the GPU, which
\* finishes submitted work at times of its own.
MaxSubmits == 4     \* submissions explored in the unit

\* The sync state of a chain of n images: every fence signaled, nothing
\* queued, the first frame in flight current.  `submits` counts over the run.
NewSync(n, submits) ==
  [pc |-> "acquire", fences |-> [i \in 1..n |-> TRUE],
   work |-> [i \in 1..n |-> 0], currentFrame |-> 0, submits |-> submits]

\* Variant: acquisition returns without looking at the fence.
FenceSignaled_NoWait(s) == TRUE

\* acquireNextImage waits for the fence of the current frame in flight; the
\* wait returns once that fence is signaled.
FenceSignaled(s) == s.fences[s.currentFrame + 1]

\* submitCommandBuffers: the fence of the current frame in flight is reset,
\* the frame's work is queued to signal it, and the current frame advances.
SubmitFrame(s) ==
  [s EXCEPT !.fences[s.currentFrame + 1] = FALSE,
            !.work[s.currentFrame + 1] = @ + 1,
            !.currentFrame = (@ + 1) % Len(s.fences),
            !.submits = @ + 1]

\* The GPU finishes one submission queued on slot i and signals its fence.
CompleteFrame(s, i) == [s EXCEPT !.work[i] = @ - 1, !.fences[i] = TRUE]

\* vkDeviceWaitIdle returns when no submitted work is left.
DeviceIdle(s) == \A i \in 1..Len(s.work) : s.work[i] = 0

\* drawFrame: acquireNextImage (blocked in its fence wait until the fence is
\* signaled) and the two tests on its result.
SyncAcquire ==
  /\ sync.pc = "acquire"
  /\ sync.submits < MaxSubmits
  /\ FenceSignaled(sync)
  /\ \E result \in VkResults :
       sync' = [sync EXCEPT !.pc =
                  CASE AcquireBranch(result) = "recreate" -> "idle_wait"
                    [] AcquireBranch(result) = "fatal" -> "fatal"
                    [] AcquireBranch(result) = "record" -> "submit"]
  /\ UNCHANGED <<frameVars, pip, ids>>

\* drawFrame: submitCommandBuffers and the tests on its result.
SyncSubmit ==
  /\ sync.pc = "submit"
  /\ \E result \in VkResults, resized \in BOOLEAN :
       sync' = [SubmitFrame(sync) EXCEPT !.pc =
                  CASE PresentBranch(result, resized) = "recreate" -> "idle_wait"
                    [] PresentBranch(result, resized) = "fatal" -> "fatal"
                    [] PresentBranch(result, resized) = "return" -> "acquire"]
  /\ UNCHANGED <<frameVars, pip, ids>>

\* recreateSwapChain: vkDeviceWaitIdle blocks until the GPU has finished.
SyncDeviceWaitIdle ==
  /\ sync.pc = "idle_wait"
  /\ DeviceIdle(sync)
  /\ sync' = [sync EXCEPT !.pc = "build"]
  /\ UNCHANGED <<frameVars, pip, ids>>

\* recreateSwapChain: the new chain, with sync handles of its own.
SyncBuild ==
  /\ sync.pc = "build"
  /\ \E n \in ImageCounts : sync' = NewSync(n, sync.submits)
  /\ UNCHANGED <<frameVars, pip, ids>>

\* The GPU, at any time, finishes a queued submission.
SyncGpuComplete ==
  /\ \E i \in 1..Len(sync.work) :
       /\ sync.work[i] > 0
       /\ sync' = CompleteFrame(sync, i)
  /\ UNCHANGED <<frameVars, pip, ids>>

InitSync ==
  /\ FrameOff
  /\ pip = PipelineOff
  /\ ids = IdsOff
  /\ \E n \in ImageCounts : sync = NewSync(n, 0)

SyncNext ==
  \/ SyncAcquire
  \/ SyncSubmit
  \/ SyncDeviceWaitIdle
  \/ SyncBuild
  \/ SyncGpuComplete

SyncSpec == InitSync /\ [][SyncNext]_vars


\* -------------------------------------------------------------- GameObject
\* The function-local static counter of GameObject::createGameObject.  id_t is
\* unsigned int, whose arithmetic wraps modulo 2^32; the unit keeps the
\* wrap-around at a width of IdBits bits so that it is within reach.
IdBits == 2         \* width of id_t in the unit
MaxMeshes == 2      \* meshes the created objects are given

IdModulus == 2 ^ IdBits

\* createGameObject calls explored: past one wrap of the counter.
MaxCreations == IdModulus + 2

\* `currentId++` on an unsigned int.
PostIncrement(c) == (c + 1) % IdModulus

\* GameObject::createGameObject, followed by what loadGameObjects does with
\* the object: it is given a mesh and moved into the collection.
IdsCreateGameObject ==
  /\ Len(ids.objects) < MaxCreations
  /\ \E mesh \in 0..(MaxMeshes - 1) :
       ids' = [currentId |-> PostIncrement(ids.currentId),
               objects |-> Append(ids.objects,
                                  [id |-> ids.currentId, model |-> mesh])]
  /\ UNCHANGED <<frameVars, pip, sync>>

InitIds ==
  /\ FrameOff
  /\ pip = PipelineOff
  /\ sync = SyncOff
  /\ ids = IdsOff

IdsNext == IdsCreateGameObject

IdsSpec == InitIds /\ [][IdsNext]_vars


\* ================================================================== claims
Stale == {"OutOfDate", "Suboptimal"}

\* drawFrame has returned (the constructor's call is followed by run's loop).
FrameReturned == pc \in {"run_loop", "done", "destroyed"}

\* A recreateSwapChain called by the frame returned, and the chain and the
\* pipeline are newer than the ones the frame started with.
FrameRecreated ==
  /\ frame.recreated
  /\ swapChain.gen > frame.gen0
  /\ pipeline.renderPass = swapChain.gen

\* C1: a frame whose acquisition returned OutOfDate records nothing and submits
\* (presents) nothing, does nothing but recreate the chain, and has completed
\* that recreation when drawFrame returns, which is before the run loop can
\* attempt the next acquisition.
C1_OutOfDateAbortsFrame ==
  frame.acq = "OutOfDate" =>
    /\ ~frame.recorded
    /\ ~frame.submitted
    /\ frame.pres = "none"
    /\ pc \in {"rc_loop", "rc_build", "rc_pipeline", "run_loop", "done",
              "destroyed", "fatal"}
    /\ (FrameReturned => FrameRecreated)

C1_Witness ==
  /\ pc = "run_loop"
  /\ frame.acq = "OutOfDate"
  /\ FrameRecreated
  /\ nRecorded = 1

\* As many command buffers as the current chain has images.
CountsAgree == Len(commandBuffers) = swapChain.imageCount

\* The count holds wherever drawFrame is about to run, runs or has returned.
C2_CountInvariant ==
  pc \in {"df_acquire", "rec_begin", "rec_pass", "rec_bind", "rec_obj",
          "df_submit", "run_loop", "done", "destroyed"} => CountsAgree

\* A recreation that finds another count leaves that many fresh buffers.
C2_MismatchReallocates ==
  (pc = "rc_build" /\ swapChain # Null /\ swapChain' # swapChain
     /\ swapChain'.imageCount # Len(commandBuffers))
  => commandBuffers' = [i \in 1..swapChain'.imageCount |-> <<>>]

\* C2: at the start of every drawFrame (and while it runs and after it has
\* returned), after construction and after any recreations, there are as many
\* command buffers as the current chain has images; a recreation that finds a
\* mismatch frees all command buffers and reallocates them to the new count.
C2_CommandBufferCount == [](C2_CountInvariant) /\ [][C2_MismatchReallocates]_vars

\* A frame recorded into a buffer and every buffer is empty again: the
\* recreation that followed freed and reallocated them.
C2_Witness ==
  /\ pc = "run_loop"
  /\ frame.recorded
  /\ FrameRecreated
  /\ CountsAgree
  /\ \A i \in 1..Len(commandBuffers) : commandBuffers[i] = <<>>

\* A chain is replaced only in the build step, after the idle wait of the same
\* recreateSwapChain call, and that step releases the superseded chain.
C3_Replace ==
  (swapChain # Null /\ swapChain' # swapChain)
  => (idleWaited /\ pc = "rc_build" /\ released' = released \cup {swapChain.gen})

\* No chain is released without that idle wait.
C3_Release == (released' # released) => idleWaited

\* C3: on every recreation that replaces an existing chain the device-idle wait
\* has returned before the new chain is built and before the superseded chain
\* is released; no chain is released without it.
C3_IdleBeforeReplace == [][C3_Replace /\ C3_Release]_vars

C3_Witness ==
  /\ pc = "rc_pipeline"
  /\ idleWaited
  /\ released # {}
  /\ swapChain.gen = 2

\* The extent of every chain has no zero dimension.
C4_ChainExtent ==
  swapChain # Null => (swapChain.extent.width > 0 /\ swapChain.extent.height > 0)

\* With a zero dimension in hand, recreateSwapChain only waits for events.
C4_StaysInLoop ==
  (pc = "rc_loop" /\ (extent.width = 0 \/ extent.height = 0))
  => (pc' = "rc_loop" /\ UNCHANGED <<swapChain, pipeline, released, idleWaited>>)

\* C4: no chain is ever built from an extent with a zero dimension; while the
\* extent recreateSwapChain holds has a zero dimension the call stays in its
\* event-wait loop and does no idle wait, no chain and no pipeline construction.
C4_NoZeroExtentChain == [](C4_ChainExtent) /\ [][C4_StaysInLoop]_vars

\* The loop was entered, a resize callback ran in it, and it was left with a
\* usable extent.
C4_Witness ==
  /\ pc = "rc_build"
  /\ frame.resizedInRecreate
  /\ extent.width > 0 /\ extent.height > 0


InRecreate == pc \in {"rc_loop", "rc_build", "rc_pipeline"}

\* The frame's presentation asks for a recreation: a stale result, or the
\* resize flag read as set when submitCommandBuffers returned.
PresentAsksRecreate ==
  /\ frame.submitted
  /\ (frame.pres \in Stale \/ frame.resizedAtPresent)

\* C5 as stated: when presentation returns OutOfDate or Suboptimal, or the
\* resize flag is set at that point, drawFrame has recreated the chain when it
\* returns and the resize flag is clear at that return.
C5_FlagClearAtReturn ==
  (FrameReturned /\ PresentAsksRecreate)
  => (FrameRecreated /\ ~framebufferResized)

\* C5 as amended: in those cases drawFrame clears the flag and then recreates
\* the chain after the frame's submission; the flag stays clear through the
\* recreation, and is clear when drawFrame returns, unless a resize callback
\* ran inside the recreation's event wait.
C5_RecreateAfterPresent ==
  /\ (FrameReturned /\ PresentAsksRecreate)
     => (FrameRecreated /\ (framebufferResized => frame.resizedInRecreate))
  /\ (InRecreate /\ ret = "frame" /\ PresentAsksRecreate
        /\ ~frame.resizedInRecreate)
     => ~framebufferResized

C5_Witness ==
  /\ pc = "run_loop"
  /\ frame.submitted
  /\ frame.pres = "Success"
  /\ frame.resizedAtPresent
  /\ FrameRecreated
  /\ ~framebufferResized

\* C6 as stated: every OutOfDate or Suboptimal result, of acquisition or of
\* presentation, has led to a recreation when drawFrame returns.
C6_EveryStaleRecreates ==
  (FrameReturned /\ (frame.acq \in Stale \/ frame.pres \in Stale))
  => FrameRecreated

\* C6 as amended: an OutOfDate result of acquisition, and an OutOfDate or
\* Suboptimal result of presentation, has led to a recreation when drawFrame
\* returns (a Suboptimal acquisition alone goes on to record and submit).
C6_StaleRecreates ==
  (FrameReturned /\ (frame.acq = "OutOfDate" \/ frame.pres \in Stale))
  => FrameRecreated

C6_Witness ==
  /\ pc = "run_loop"
  /\ frame.acq = "Suboptimal"
  /\ frame.pres = "Suboptimal"
  /\ ~frame.resizedAtPresent
  /\ FrameRecreated

\* C7: an acquisition result other than Success, Suboptimal and OutOfDate ends
\* drawFrame with a fatal error; that frame records, submits and presents
\* nothing and leaves the chain as it was.
C7_AcquireErrorFatal ==
  frame.acq = "Error" =>
    /\ pc = "fatal"
    /\ ~frame.recorded
    /\ ~frame.submitted
    /\ frame.pres = "none"
    /\ ~frame.recreated
    /\ swapChain.gen = frame.gen0

C7_Witness ==
  /\ frame.acq = "Error"
  /\ pc = "fatal"
  /\ frameNo = 2

\* C8: a presentation result other than Success, Suboptimal and OutOfDate
\* always ends drawFrame with a fatal error, whatever the resize flag: the
\* frame never goes on to recreate the chain and never returns.
C8_PresentErrorFatal ==
  frame.pres = "Error" => (pc = "fatal" /\ ~frame.recreated)

IsDraw(c) == c.op = "Draw"
IsBind(c) == c.op = "BindModel"
IsPush(c) == c.op = "PushConstants"

\* The draws, the mesh binds and the pushes of a buffer are one per object, in
\* collection order, and every draw comes straight after the bind of the same
\* mesh, itself straight after a push.
OnePerObject(buf) ==
  LET n == Len(gameObjects) IN
  /\ SelectSeq(buf, IsDraw) = [j \in 1..n |-> Cmd("Draw", <<gameObjects[j].model>>)]
  /\ SelectSeq(buf, IsBind) = [j \in 1..n |-> Cmd("BindModel", <<gameObjects[j].model>>)]
  /\ [j \in 1..Len(SelectSeq(buf, IsPush)) |-> SelectSeq(buf, IsPush)[j].args[1]]
       = [j \in 1..n |-> gameObjects[j].id]
  /\ \A k \in 1..Len(buf) :
       IsDraw(buf[k]) => /\ k > 2
                         /\ IsBind(buf[k - 1])
                         /\ buf[k - 1].args = buf[k].args
                         /\ IsPush(buf[k - 2])

\* C9: a recorded frame holds exactly one draw per scene object, in collection
\* order, each preceded by one push of that object's record and one bind of its
\* mesh; outside recording the draws issued so far number (objects) x (frames
\* recorded), and a frame aborted by OutOfDate records nothing.
C9_DrawsPerFrame ==
  /\ (pc \notin {"rec_pass", "rec_bind", "rec_obj"}
        => nDraws = Len(gameObjects) * nRecorded)
  /\ (pc = "df_submit" => OnePerObject(commandBuffers[imageIndex + 1]))
  /\ (frame.acq = "OutOfDate" => ~frame.recorded)

\* One frame recorded, the next aborted by OutOfDate, two objects.
C9_Witness ==
  /\ pc = "run_loop"
  /\ frame.acq = "OutOfDate"
  /\ frameNo = 2
  /\ nRecorded = 1
  /\ Len(gameObjects) = 2
  /\ nDraws = 2

RECURSIVE PerObjectOps(_)
PerObjectOps(n) ==
  IF n = 0 THEN <<>>
  ELSE <<"PushConstants", "BindModel", "Draw">> \o PerObjectOps(n - 1)

\* The order of a recording of n objects.
ExpectedOps(n) ==
  <<"Begin", "BeginRenderPass", "SetViewport", "SetScissor", "BindPipeline">>
    \o PerObjectOps(n) \o <<"EndRenderPass", "End">>

OpsOf(buf) == [k \in 1..Len(buf) |-> buf[k].op]

IsPrefix(a, b) == Len(a) <= Len(b) /\ SubSeq(b, 1, Len(a)) = a

\* C10: the commands of every buffer are, in order, a beginning of: begin,
\* begin render pass, set viewport, set scissor, bind pipeline (once), then
\* push / bind mesh / draw per object, end render pass, end; a finished
\* recording is that whole sequence, its render pass begun with the fixed
\* clear values.  So nothing lies outside begin/end and no draw outside the pass.
C10_CommandOrder ==
  /\ \A i \in 1..Len(commandBuffers) :
       IsPrefix(OpsOf(commandBuffers[i]), ExpectedOps(Len(gameObjects)))
  /\ pc = "df_submit" =>
       LET buf == commandBuffers[imageIndex + 1] IN
       /\ OpsOf(buf) = ExpectedOps(Len(gameObjects))
       /\ SubSeq(buf[2].args, 5, 7) = <<ClearColorCenti, ClearDepthCenti, ClearStencil>>

C10_Witness ==
  /\ pc = "df_submit"
  /\ Len(gameObjects) = 2
  /\ frameNo = 2
  /\ Len(commandBuffers[imageIndex + 1]) = 13


\* ------------------------------------------------------------ C11 (SyncSpec)
RECURSIVE SumSeq(_)
SumSeq(q) == IF q = <<>> THEN 0 ELSE Head(q) + SumSeq(Tail(q))

\* Submitted frames the GPU has not finished: their fences are pending.
InFlight == SumSeq(sync.work)

\* C11: however the GPU's completions interleave with the frame loop, the
\* submitted frames whose in-flight fence is still pending never number more
\* than the chain's image count N; a frame-in-flight slot is reused only after
\* its fence was waited for, so each slot carries at most one pending frame and
\* its fence is pending exactly while that frame is.
C11_FramesInFlightBounded ==
  /\ InFlight <= Len(sync.fences)
  /\ \A i \in 1..Len(sync.work) :
       /\ sync.work[i] <= 1
       /\ (sync.work[i] = 1) <=> ~sync.fences[i]

\* Two slots, both pending, after a slot was reused: the loop is held in the
\* fence wait of the next acquisition.
C11_Witness ==
  /\ sync.pc = "acquire"
  /\ Len(sync.fences) = 2
  /\ sync.work = <<1, 1>>
  /\ sync.submits = 3
  /\ ~FenceSignaled(sync)


\* ---------------------------------------------------------------- C12 (Spec)
\* The counts of the running iteration: none before its acquisition, one
\* acquisition from then on, at most one submission, and a submission only of
\* a frame whose acquisition let it record.
C12_Counts ==
  /\ frame.acqs <= 1
  /\ frame.submits <= 1
  /\ (pc = "df_acquire" => (frame.acqs = 0 /\ frame.submits = 0))
  /\ ((frameNo >= 1 /\ pc # "df_acquire") => frame.acqs = 1)
  /\ (frame.submits = 1 => frame.acq \in {"Success", "Suboptimal"})

\* The counts start over only where run's loop polls for the next iteration,
\* and once a frame met a stale result (OutOfDate at acquisition, or a
\* recreation asked for at presentation) no step of that iteration acquires or
\* submits again.
C12_NoRetry ==
  /\ (frame'.acqs < frame.acqs \/ frame'.submits < frame.submits)
       => (pc = "run_loop" /\ pc' = "df_acquire")
  /\ ((frame.acq = "OutOfDate" \/ frame.submitted) /\ pc # "run_loop")
       => (frame'.acqs = frame.acqs /\ frame'.submits = frame.submits)

\* C12: every iteration of run's loop makes exactly one acquisition attempt and
\* at most one submission/presentation; after a stale result the frame is not
\* acquired or submitted again in the same iteration.
C12_OneAttemptPerIteration == [](C12_Counts) /\ [][C12_NoRetry]_vars

\* An iteration of the loop whose presentation was stale: one acquisition, one
\* submission, the recreation done, and drawFrame back in the loop.
C12_Witness ==
  /\ pc = "run_loop"
  /\ frameNo = 2
  /\ frame.acqs = 1
  /\ frame.submits = 1
  /\ frame.pres \in Stale
  /\ FrameRecreated


\* ---------------------------------------------------------------- C13 (Spec)
IsDestroyed(what) == \E k \in 1..Len(destroyed) : destroyed[k] = what

\* The life of the chain: none yet; ready; being recreated (a
\* recreateSwapChain called by a frame runs over an existing chain);
\* destroyed.
ChainState ==
  IF IsDestroyed("swapChain") THEN "Destroyed"
  ELSE IF swapChain = Null THEN "Uninitialized"
  ELSE IF InRecreate /\ ret = "frame" THEN "Recreating"
  ELSE "Ready"

FramePcs == {"df_acquire", "rec_begin", "rec_pass", "rec_bind", "rec_obj",
             "df_submit"}

\* Wherever drawFrame acquires, records or submits, a chain exists, is ready
\* and not released, and the pipeline and the command buffers built after it
\* exist.
C13_UseWhenReady ==
  pc \in FramePcs =>
    /\ ChainState = "Ready"
    /\ swapChain.gen \notin released
    /\ pipeline # Null
    /\ Len(commandBuffers) = swapChain.imageCount

\* The state changes only along the four arrows, nothing happens once it is
\* Destroyed, and every step that acquires, begins a recording, records a draw
\* or submits starts with the chain Ready.
C13_Steps ==
  /\ ChainState' # ChainState =>
       <<ChainState, ChainState'>> \in
          {<<"Uninitialized", "Ready">>, <<"Ready", "Recreating">>,
           <<"Recreating", "Ready">>, <<"Ready", "Destroyed">>}
  /\ ChainState # "Destroyed"
  /\ (frame'.acqs > frame.acqs \/ frame'.submits > frame.submits
        \/ nRecorded' > nRecorded \/ nDraws' > nDraws)
       => (ChainState = "Ready" /\ swapChain.gen \notin released)

\* C13: the chain goes Uninitialized -> Ready -> Recreating -> Ready with one
\* terminal Destroyed; acquisition, recording and submission happen only while
\* a chain exists and is Ready (the constructor has built the chain and then
\* the command buffers before the first drawFrame), never during a recreation
\* and never after destruction.
C13_ChainLifecycle == [](C13_UseWhenReady) /\ [][C13_Steps]_vars

\* A run that recorded, recreated the chain and ended with its destruction.
C13_Witness ==
  /\ ChainState = "Destroyed"
  /\ pc = "destroyed"
  /\ released # {}
  /\ nRecorded >= 1


\* ------------------------------------------------------- C14 (PipelineSpec)
PipEnded == {"constructed", "destructed", "failed", "aborted"}

\* C14: construction from a configuration whose layout or render pass is null
\* always fails, before any file is read and before any GPU call: it never
\* gets to open a file, to create a module or to finish.
C14_NullConfigFails ==
  (pip.pc # "off" /\ (pip.layoutNull \/ pip.renderPassNull)) =>
    /\ pip.reads = <<>>
    /\ pip.gpuCalls = 0
    /\ pip.pc \in {"assert_layout", "assert_pass", "aborted", "failed"}

\* ------------------------------------------------------- C15 (PipelineSpec)
PastReads == {"module_vert", "module_frag", "create_pipeline", "constructed",
              "destructed"}

\* C15: when the vertex or the fragment file cannot be opened, construction
\* (once past its assertions) fails in readFile with an error whose message
\* holds the offending path, with no shader module, no pipeline handle and no
\* GPU call made; every module is created after both files were read.
C15_OpenFailureBeforeModules ==
  /\ (~pip.vertOpens \/ ~pip.fragOpens) =>
       /\ pip.vertShaderModule = "null"
       /\ pip.fragShaderModule = "null"
       /\ pip.graphicsPipeline = "null"
       /\ pip.gpuCalls = 0
       /\ pip.pc \notin PastReads
  /\ (pip.pc = "read_frag" => pip.vertOpens)
  /\ (pip.error.kind = "open" =>
        /\ pip.pc = "failed"
        /\ pip.error.message[2] = (IF ~pip.vertOpens THEN VertPath ELSE FragPath)
        /\ pip.reads[Len(pip.reads)] = pip.error.message[2])
  /\ ((pip.pc \in PastReads \/ pip.gpuCalls > 0) => pip.reads = <<VertPath, FragPath>>)

\* The vertex file was read, the fragment file did not open.
C15_Witness ==
  /\ pip.pc = "failed"
  /\ pip.vertOpens
  /\ ~pip.fragOpens
  /\ pip.reads = <<VertPath, FragPath>>
  /\ pip.error = OpenError(FragPath)
  /\ pip.vertShaderModule = "null"

\* ------------------------------------------------------- C16 (PipelineSpec)
ValidConfig == ~pip.layoutNull /\ ~pip.renderPassNull

\* C16 as stated: with a non-null layout and render pass the construction,
\* once ended, has succeeded.
C16_ValidConfigAlwaysSucceeds ==
  (ValidConfig /\ pip.pc \in PipEnded) => pip.pc \in {"constructed", "destructed"}

\* With a non-null layout and render pass the construction is never aborted,
\* and it fails only in readFile (a file that does not open) or by the driver
\* rejecting a module or the pipeline.
C16_FailsOnlyByFileOrDriver ==
  ValidConfig =>
    /\ pip.pc # "aborted"
    /\ (pip.pc = "failed" =>
          \/ pip.error.kind = "open" /\ (~pip.vertOpens \/ ~pip.fragOpens)
          \/ pip.error.kind \in {"module", "pipeline"} /\ pip.gpuCalls > 0)
    /\ (pip.pc \in {"constructed", "destructed"} =>
          (pip.vertOpens /\ pip.fragOpens /\ pip.gpuCalls = 3
             /\ pip.error = NoError))

\* A step that changes a command buffer changes one buffer, by one
\* bind-pipeline command at its end, and nothing else of the pipeline.
C16_BindAppendsOne ==
  pip'.buffers # pip.buffers =>
    /\ pip.pc = "constructed"
    /\ \E b \in 1..Len(pip.buffers) :
         /\ pip'.buffers[b] = Append(pip.buffers[b], Cmd("BindPipeline", <<"graphicsPipeline">>))
         /\ pip' = [pip EXCEPT !.buffers[b] = pip'.buffers[b]]

\* C16 as amended: for every configuration with non-null layout and render
\* pass, construction succeeds when both files open and the driver accepts the
\* two modules and the pipeline, and fails otherwise; each bind appends
\* exactly one bind-pipeline command to the buffer it is given and changes
\* nothing else.
C16_ValidConfigBinds ==
  [](C16_FailsOnlyByFileOrDriver) /\ [][C16_BindAppendsOne]_vars

\* A constructed pipeline bound once into each of the two buffers.
C16_Witness ==
  /\ pip.pc = "constructed"
  /\ ValidConfig
  /\ Len(pip.buffers[1]) = 1
  /\ Len(pip.buffers[2]) = 1


\* ---------------------------------------------------------------- C17 (Spec)
\* The rotation of an object that k recordings have advanced.
RotationAfter(k) == (TwoPiCenti \div 4 + k * RotStepCenti) % TwoPiCenti

\* C17: in every recording, the push record of each object recorded so far
\* holds that object's transform (rotation and scale), offset and color as
\* they stand after this frame's update: the rotation is the one advanced by
\* this recording, not the one an earlier frame left.
C17_PushHoldsUpdatedValues ==
  pc \in {"rec_obj", "df_submit"} =>
    LET pushes == SelectSeq(commandBuffers[imageIndex + 1], IsPush) IN
    /\ Len(pushes) = (IF pc = "df_submit" THEN Len(gameObjects) ELSE objIdx - 1)
    /\ \A j \in 1..Len(pushes) :
         LET o == gameObjects[j] IN
         /\ SubSeq(pushes[j].args, 1, 4) = <<o.id, <<o.rotation, o.scale>>, o.translation, o.color>>
         /\ o.rotation = RotationAfter(nRecorded)

\* The second recording of two objects: their pushes hold the rotation after
\* two advances.
C17_Witness ==
  /\ pc = "df_submit"
  /\ nRecorded = 2
  /\ Len(gameObjects) = 2
  /\ gameObjects[2].rotation = RotationAfter(2)
  /\ SelectSeq(commandBuffers[imageIndex + 1], IsPush)[2].args[2][1] = RotationAfter(2)

\* ---------------------------------------------------------------- C18 (Spec)
\* The buffer of the running frame is between vkBeginCommandBuffer and
\* vkEndCommandBuffer.
RecordingOpen ==
  /\ pc \in {"rec_pass", "rec_bind", "rec_obj"}
  /\ LET buf == commandBuffers[imageIndex + 1] IN
       /\ buf # <<>>
       /\ buf[1].op = "Begin"
       /\ buf[Len(buf)].op # "End"

\* C18: every advance of an object's transform happens before the command
\* buffer recording of that frame begins: no step changes a scene object while
\* the frame's buffer is between begin-command-buffer and end-command-buffer.
C18_NoUpdateWhileRecording ==
  [][gameObjects' # gameObjects => ~RecordingOpen]_vars


\* ------------------------------------------------------------ C19 (IdsSpec)
\* C19: the ids returned by successive createGameObject calls are strictly
\* increasing, so no id is handed out twice, however many objects are created.
C19_IdsStrictlyIncreasing ==
  \A i, j \in 1..Len(ids.objects) :
    i < j => ids.objects[i].id < ids.objects[j].id


\* ---------------------------------------------------------------- C20 (Spec)
Pos(what) == CHOOSE k \in 1..Len(destroyed) : destroyed[k] = what

DestroyedBefore(a, b) == IsDestroyed(a) /\ IsDestroyed(b) /\ Pos(a) < Pos(b)

\* What is made from the device and refers to it.
DeviceObjects == {"pipelineLayout", "vertShaderModule", "fragShaderModule",
                  "graphicsPipeline", "swapChain", "meshes"}

\* C20: on shutdown run waits for the device to be idle before anything is
\* destroyed; the pipeline (both shader modules and the pipeline handle, all
\* three released), the chain and the meshes are destroyed before the device,
\* and the device before the window, each once: the device outlives every
\* object that refers to it.
C20_ShutdownOrder ==
  /\ (pc = "done" => (idleWaited /\ destroyed = <<>>))
  /\ (destroyed # <<>> =>
        /\ pc = "destroyed"
        /\ idleWaited
        /\ \A x \in DeviceObjects : DestroyedBefore(x, "device")
        /\ DestroyedBefore("device", "window")
        /\ \A i, j \in 1..Len(destroyed) : i < j => destroyed[i] # destroyed[j])

\* A run that drew frames, was closed, waited, and was destroyed to the window.
C20_Witness ==
  /\ pc = "destroyed"
  /\ idleWaited
  /\ nRecorded >= 1
  /\ Len(destroyed) = 8
  /\ destroyed[Len(destroyed)] = "window"

\* ------------------------------------------------------- C21 (PipelineSpec)
Handles == {"vertShaderModule", "fragShaderModule", "graphicsPipeline"}

\* C21: once pipeline construction has failed, no GPU handle created during
\* it is left unreleased: a shader module created before the failing step
\* (second module rejected, or pipeline creation rejected) has been released.
C21_FailureReleasesModules ==
  pip.pc \in {"failed", "aborted"} => \A h \in Handles : pip[h] # "created"

\* ---------------------------------------------------------------- C22 (Spec)
\* Every push-constants command of every command buffer.
PushesRecorded ==
  {<<b, k>> \in (1..Len(commandBuffers)) \X (1..(MaxObjects * 3 + 4)) :
     k <= Len(commandBuffers[b]) /\ IsPush(commandBuffers[b][k])}

\* C22: the one push-constant range of the pipeline layout has offset 0, the
\* size of SimplePushConstantData and the vertex and fragment stages; every
\* push recorded in a command buffer writes a range of the same offset, size
\* and stage set, and that size is at most 128 bytes.
C22_PushRangeMatchesLayout ==
  LET range == pipelineLayout.pushConstantRanges[1] IN
  /\ Len(pipelineLayout.pushConstantRanges) = 1
  /\ range.offset = 0
  /\ range.size = SizeOf(SimplePushConstantData)
  /\ range.stageFlags = {"VERTEX", "FRAGMENT"}
  /\ range.size <= 128
  /\ \A bk \in PushesRecorded :
       LET push == commandBuffers[bk[1]][bk[2]].args[5] IN
       /\ push.offset = range.offset
       /\ push.size = range.size
       /\ push.stageFlags = range.stageFlags

\* A frame of two objects is recorded: two pushes of 48 bytes in its buffer.
C22_Witness ==
  /\ pc = "df_submit"
  /\ Len(SelectSeq(commandBuffers[imageIndex + 1], IsPush)) = 2
  /\ \A j \in 1..2 :
       SelectSeq(commandBuffers[imageIndex + 1], IsPush)[j].args[5].size = 48
  /\ EndOf(SimplePushConstantData, 2) = 24
  /\ PushesRecorded # {}

\* ---------------------------------------------------------------- C23 (Spec)
\* The render pass named by the k-th command of the running frame's buffer.
PassOf(k) == commandBuffers[imageIndex + 1][k].args[1]

\* Outside a recreation the pipeline is the one constructed from the current
\* chain's render pass; a recording binds that pipeline inside a render pass
\* begun on the current chain.
C23_PipelineOfCurrentChain ==
  /\ pc \in FramePcs \cup {"ctor_cmdbufs", "run_loop", "done"} =>
       (pipeline # Null /\ pipeline.renderPass = swapChain.gen)
  /\ pc \in {"rec_obj", "df_submit"} =>
       LET buf == commandBuffers[imageIndex + 1] IN
       /\ Len(SelectSeq(buf, LAMBDA c : c.op = "BindPipeline")) = 1
       /\ buf[2].op = "BeginRenderPass" /\ buf[5].op = "BindPipeline"
       /\ PassOf(5) = swapChain.gen
       /\ PassOf(2) = PassOf(5)

\* A step that builds a chain goes on to createPipeline (or is fatal) with
\* no recording between; a step that changes the pipeline installs one
\* constructed from the current chain's render pass, so the member never
\* loses a pipeline without a new one existing.
C23_Steps ==
  /\ swapChain' # swapChain =>
       (pc = "rc_build" /\ pc' \in {"rc_pipeline", "fatal"} /\ nRecorded' = nRecorded)
  /\ pipeline' # pipeline =>
       /\ pc = "rc_pipeline"
       /\ pipeline' # Null
       /\ pipeline'.renderPass = swapChain.gen
       /\ swapChain' = swapChain
  /\ (pc = "rc_pipeline" /\ pc' # "fatal") => pipeline'.renderPass = swapChain.gen

\* C23: whenever a command buffer is recorded, the bound pipeline was
\* constructed against the render pass of the current chain: every chain
\* recreation (the first creation included) is followed by the construction of
\* a new pipeline from the new chain's render pass before the next recording,
\* and the previous pipeline is released only once the new one exists.
C23_PipelineFollowsChain == [](C23_PipelineOfCurrentChain) /\ [][C23_Steps]_vars

\* A frame recorded on the second chain binds the pipeline of the second
\* chain's render pass.
C23_Witness ==
  /\ pc = "df_submit"
  /\ swapChain.gen = 2
  /\ 1 \in released
  /\ PassOf(5) = 2
  /\ pipeline.renderPass = 2

\* ---------------------------------------------------------------- C24 (Spec)
\* C24: in every recording, the render pass is begun on the current chain
\* with that chain's extent as render area, and the viewport and the scissor
\* are that same extent, never zero; a frame recorded after a recreation is
\* recorded on the new chain, with the new chain's extent.
C24_RecordedExtentIsCurrent ==
  pc \in {"rec_bind", "rec_obj", "df_submit"} =>
    LET buf == commandBuffers[imageIndex + 1]
        e == swapChain.extent
    IN  /\ buf[2].op = "BeginRenderPass"
        /\ buf[2].args[1] = swapChain.gen
        /\ swapChain.gen \notin released
        /\ SubSeq(buf[2].args, 3, 4) = <<e.width, e.height>>
        /\ buf[3] = Cmd("SetViewport", <<e.width, e.height>>)
        /\ buf[4] = Cmd("SetScissor", <<e.width, e.height>>)
        /\ ~IsZeroExtent(e)

\* The first chain had the initial extent; the window was resized to another
\* one, the chain recreated, and a frame is recorded with the new extent.
C24_Witness ==
  /\ pc = "df_submit"
  /\ swapChain.gen = 2
  /\ swapChain.extent = [width |-> MaxDim, height |-> MaxDim]
  /\ swapChain.extent # [width |-> InitialWidth, height |-> InitialHeight]
  /\ commandBuffers[imageIndex + 1][3] = Cmd("SetViewport", <<MaxDim, MaxDim>>)
  /\ commandBuffers[imageIndex + 1][2].args[3] = MaxDim

\* ------------------------------------------------------------ C25 (LiveSpec)
\* run has returned after its device-idle wait (or the program has ended by
\* an error thrown out of drawFrame).
RunReturned == pc \in {"done", "destroyed", "fatal"}

\* C25: once the window's close is requested, run eventually leaves the frame
\* loop and returns, also when the request arrives while the extent is zero
\* and recreateSwapChain is waiting.
C25_CloseLeadsToReturn == closeRequested ~> RunReturned

\* ---------------------------------------------------------------- C26 (Spec)
\* C26: in the zero-extent wait of recreateSwapChain, once the window has a
\* non-zero width and height, the loop test sees a non-zero extent, so the
\* wait ends without another call of glfwWaitEvents.
C26_WaitEndsOnRestore ==
  (pc = "rc_loop" /\ width > 0 /\ height > 0) => ~IsZeroExtent(extent)

\* ---------------------------------------------------------------- C27 (Spec)
\* A resize callback has run: nothing else changes the stored size, and the
\* window was constructed with a size no callback reports.
WindowWasResized == <<width, height>> # <<InitialWidth, InitialHeight>>

\* C27: when a frame has recreated the chain for the window's present size,
\* on either path and with no resize callback run during the recreation, the
\* resize flag is clear when the frame returns, so that the following frame
\* has no pending resize to recreate the chain for.
C27_OneRecreationPerResize ==
  (pc = "run_loop" /\ WindowWasResized /\ frame.recreated
     /\ ~frame.resizedInRecreate /\ swapChain.extent = getExtent)
  => ~framebufferResized

\* ---------------------------------------------------------------- C28 (Spec)
\* No resize callback has run yet: callbacks run inside glfwPollEvents and
\* glfwWaitEvents only, and neither has been called before the first turn of
\* run's loop (the constructor's recreation finds a non-zero extent).
NoCallbackYet == frameNo = 0 \/ (frameNo = 1 /\ pc # "df_acquire")

\* C28: until the first resize callback the resize flag reads false, and a
\* frame of the never-resized window whose presentation succeeds does not
\* recreate the chain.
C28_FlagFalseUntilResize ==
  NoCallbackYet =>
    /\ ~framebufferResized
    /\ ~WindowWasResized
    /\ (frame.pres = "Success" => (~InRecreate /\ ~frame.recreated))

====
